---- MODULE Spec2Model ----
(***************************************************************************)
(* Hypergraph-of-Thoughts interaction page (src/js/hypergraph_interaction.js) *)
(* as a state machine: the D3 scene, the selection, the adjustment         *)
(* controls, the requests in flight and the snapshot deliveries.           *)
(*                                                                         *)
(* Numbers that the page handles as floats in [0,1] are kept in tenths     *)
(* (0.8 is 8); Absent stands for a field that the record does not have.    *)
(***************************************************************************)
EXTENDS Integers, Sequences, FiniteSets, TLC

\* ------------------------------------------------------------------ bounds
MaxMembers == 3     \* longest hyperedge member list drawn for the projector
MaxTicks == 1       \* simulation ticks followed per node between snapshots
MaxInFlight == 2    \* adjustment requests followed at the same time
MaxPolls == 2       \* runs of fetchMetricsAndInsights followed at the same time

\* ------------------------------------------------------------ JS values
Absent == -1                 \* a numeric field that is missing (undefined)
NoLabel == "undefined"       \* a label key that is missing
Half == 5                    \* the literal 0.5 of `x || 0.5`

\* `x || 0.5` on a number: undefined and 0 are falsy
OrHalf(x) == IF x = Absent \/ x = 0 THEN Half ELSE x

Digits == <<"0", "1", "2", "3", "4", "5", "6", "7", "8", "9">>

\* the string a range input holds for a number of tenths
NumberToString(t) ==
    IF t = 0 THEN "0"
    ELSE IF t = 10 THEN "1"
    ELSE "0." \o Digits[t + 1]

Tenths == 0..10

\* parseFloat on the strings a range input can hold
ParseFloat(s) == CHOOSE t \in Tenths : NumberToString(t) = s

\* ------------------------------------------------------- raw snapshots
RawNode(i, l, r) == [id |-> i, label |-> l, relevance |-> r]

\* hasNodes = FALSE: the hyperedge record has no `nodes` member list
RawEdge(i, has, ns, w) == [id |-> i, hasNodes |-> has, nodes |-> ns, weight |-> w]

HotData(hn, ns, he, es) ==
    [isNull |-> FALSE, hasNodes |-> hn, nodes |-> ns, hasEdges |-> he, edges |-> es]

NullData ==
    [isNull |-> TRUE, hasNodes |-> FALSE, nodes |-> <<>>, hasEdges |-> FALSE, edges |-> <<>>]

NodeA == RawNode("a", "Alpha", 8)
NodeB == RawNode("b", NoLabel, Absent)
NodeC == RawNode("c", "", 0)

\* Scenario A: one hyperedge over a, b, c
SnapA == HotData(TRUE, <<NodeA, NodeB, NodeC>>, TRUE,
                 <<RawEdge("e1", TRUE, <<"a", "b", "c">>, 8)>>)
\* Scenario D: e2 has a single member; c has moved to the front
SnapSingle == HotData(TRUE, <<NodeC, NodeA, NodeB>>, TRUE,
                 <<RawEdge("e2", TRUE, <<"c">>, 8),
                   RawEdge("e1", TRUE, <<"a", "b">>, 0)>>)
\* e2 names a node id that the snapshot does not have
SnapUnknown == HotData(TRUE, <<NodeA, NodeB>>, TRUE,
                 <<RawEdge("e2", TRUE, <<"a", "z">>, Absent),
                   RawEdge("e1", TRUE, <<"a", "b">>, 8)>>)
\* a hyperedge record without a member list
SnapNoMembers == HotData(TRUE, <<NodeA, NodeB>>, TRUE,
                 <<RawEdge("e2", FALSE, <<>>, 8)>>)
\* the pair (a, b) belongs to two hyperedges
SnapShared == HotData(TRUE, <<NodeA, NodeB, NodeC>>, TRUE,
                 <<RawEdge("e1", TRUE, <<"a", "b", "c">>, 8),
                   RawEdge("e2", TRUE, <<"a", "b">>, 3)>>)
\* structurally absent sequences
SnapNoEdges == HotData(TRUE, <<NodeA, NodeB>>, FALSE, <<>>)
SnapNoNodes == HotData(FALSE, <<>>, TRUE, <<RawEdge("e1", TRUE, <<"a", "b">>, 8)>>)

Snapshots ==
    {SnapA, SnapSingle, SnapUnknown, SnapNoMembers, SnapNoEdges, SnapNoNodes, NullData}

\* `!hotData || !hotData.nodes || !hotData.edges` is false
ValidHotData(hotData) == ~hotData.isNull /\ hotData.hasNodes /\ hotData.hasEdges

\* --------------------------------------------------- pure transformations
RECURSIVE Flatten(_)
Flatten(ss) == IF ss = <<>> THEN <<>> ELSE Head(ss) \o Flatten(Tail(ss))

\* { id: n.id, label: n.label || n.id, ...n }: the spread comes last, so a
\* label key that the raw node has (even an empty one) wins over the default
NormalizeNode(n) ==
    [id |-> n.id,
     label |-> IF n.label = NoLabel THEN n.id ELSE n.label,
     relevance |-> n.relevance]

NormalizeNodes(rawNodes) == [i \in 1..Len(rawNodes) |-> NormalizeNode(rawNodes[i])]

Link(s, t, w, i) == [source |-> s, target |-> t, weight |-> w, id |-> i]

\* for (j = i + 1; j < n; j++) links.push(...)
RECURSIVE InnerLoop(_, _, _)
InnerLoop(edge, i, j) ==
    IF j > Len(edge.nodes) THEN <<>>
    ELSE <<Link(edge.nodes[i], edge.nodes[j], OrHalf(edge.weight), edge.id)>>
            \o InnerLoop(edge, i, j + 1)

\* for (i = 0; i < n; i++) ...
RECURSIVE OuterLoop(_, _)
OuterLoop(edge, i) ==
    IF i > Len(edge.nodes) THEN <<>>
    ELSE InnerLoop(edge, i, i + 1) \o OuterLoop(edge, i + 1)

\* the forEach body with `> 2` for `>= 2`
EdgeLinksOverTwo(edge) == IF Len(edge.nodes) > 2 THEN OuterLoop(edge, 1) ELSE <<>>

\* the body of hotData.edges.forEach for one hyperedge
EdgeLinks(edge) == IF Len(edge.nodes) >= 2 THEN OuterLoop(edge, 1) ELSE <<>>

\* the links array after the forEach
ProjectLinks(edges) == Flatten([k \in 1..Len(edges) |-> EdgeLinks(edges[k])])

\* edge.nodes.length on a record without `nodes` raises a TypeError
TransformThrows(hotData) ==
    \E k \in 1..Len(hotData.edges) : ~hotData.edges[k].hasNodes

\* --------------------------------------------------------------- state
VARIABLES
    currentHotData,     \* the latest stored snapshot, NullData before the first
    selectedElement,    \* [type, id]; type "none" when nothing is selected
    simNodes,           \* the node objects bound to the circles and held by the simulation
    linkData,           \* the link objects bound to the lines
    selectedNodes,      \* indices of simNodes whose circle has class "selected"
    selectedLinks,      \* indices of linkData whose line has class "selected"
    attached,           \* the groups that hold circles and lines are in the document
    relevanceDisabled, relevanceValue,      \* nodeRelevanceSlider
    weightDisabled, weightValue,            \* edgeWeightSlider
    applyDisabled, applyLabel,              \* applyChangesButton
    inflight,           \* bodies of the adjustment requests awaiting a response
    hotFetch,           \* "pending" while GET /api/hot/current is awaited
    lastOp,             \* the handler that ran last
    lastOutcome,        \* what became of the snapshot delivered to it, "none" without one
    raised,             \* the last handler ended with an uncaught exception
    notified,           \* the notification the last handler showed
    lastResp,           \* the answer that the last adjustment handler processed
    clickTarget,        \* index of the circle or line the last click hit, 0 otherwise
    metricsRegion, insightsRegion,  \* what #hot-metrics and #hot-insights show
    polls,              \* runs of fetchMetricsAndInsights awaiting a response
    lastPoll,           \* the two responses of the run that the last handler finished
    delivered,          \* <<the snapshot>> that the last handler was handed, else <<>>
    layoutForce,        \* layoutForceSlider.value
    charge,             \* strength of the simulation's charge force
    alpha,              \* the value simulation.alpha was last set to, in tenths
    alphaTarget,        \* simulation.alphaTarget(), in tenths
    running,            \* the simulation's timer runs
    drag,               \* the drag gesture in progress
    pEdges, pLinks, pDone,  \* projector run on drawn hyperedges
    \* the settings page (configuracoes section of visualizations.js)
    currentPassword, newPassword, confirmPassword,  \* values of the password inputs
    saveDisabled, saveLabel,        \* saveSettingsButton
    saveInflight,       \* payloads of POST /api/settings/save awaiting a response
    lastValid,          \* what validatePasswords returned to the last save click
    modelList,          \* what defaultModelSelect holds
    modelsFetch,        \* "pending" while GET /api/models is awaited
    initLoad,           \* the loadSettings run started by populateModelSelect
    formLoaded,         \* the form was filled from a response of /api/settings/load
    resetDisabled,      \* resetSettingsButton.disabled
    resetPhase,         \* where handleResetSettings stands
    \* the chat page (chat.js)
    chatInput, chatModel,   \* chatInput.value, modelSelect.value
    chatPending,        \* calls of sendMessage awaiting their result
    chatIndicators,     \* typing indicators in the transcript
    transcript,         \* kinds of the messages in chatOutput
    chatSent            \* messages sent so far

sceneVars == <<currentHotData, simNodes, linkData, selectedNodes, selectedLinks, attached>>
controlVars == <<relevanceDisabled, relevanceValue, weightDisabled, weightValue>>
applyVars == <<applyDisabled, applyLabel>>
projVars == <<pEdges, pLinks, pDone>>
settingsVars == <<currentPassword, newPassword, confirmPassword, saveDisabled, saveLabel,
                  saveInflight, lastValid, modelList, modelsFetch, initLoad, formLoaded,
                  resetDisabled, resetPhase>>
chatVars == <<chatInput, chatModel, chatPending, chatIndicators, transcript, chatSent>>
pollVars == <<metricsRegion, insightsRegion, polls>>
layoutVars == <<layoutForce, charge>>
energyVars == <<alpha, alphaTarget, running, drag>>
vars == <<currentHotData, selectedElement, simNodes, linkData, selectedNodes,
          selectedLinks, attached, relevanceDisabled, relevanceValue, weightDisabled,
          weightValue, applyDisabled, applyLabel, inflight, hotFetch, lastOp,
          lastOutcome, raised, notified, lastResp, clickTarget, metricsRegion,
          insightsRegion, polls, lastPoll, delivered, layoutForce, charge, alpha, alphaTarget, running, drag,
          pEdges, pLinks, pDone, settingsVars, chatVars>>

NoSelection == [type |-> "none", id |-> ""]
Selection(t, i) == [type |-> t, id |-> i]

NoResp == [kind |-> "none", error |-> ""]

\* no run of fetchMetricsAndInsights was finished
NoPoll == [metrics |-> "none", insights |-> "none"]

\* no drag gesture; `node` is the index of the dragged datum in simNodes and
\* `bound` tells that the datum the gesture holds is still that node object
NoDrag == [on |-> FALSE, node |-> 0, bound |-> FALSE]

\* simulation.alpha(1), .alpha(0.3) and the settled simulation, in tenths
FullAlpha == 10
ReheatAlpha == 3
Settled == 0
\* simulationInstance.alphaTarget(0.3) and alphaTarget(0)
DragAlphaTarget == 3
RestAlphaTarget == 0
\* forceManyBody().strength(-150); forceValue * -300 with forceValue in tenths
InitialCharge == -150
ChargePerTenth == -30

\* d.fx = null
NoPin == 0
\* d.fx = d.x: pinned where the node stands
Here == 9

NoNotification == [type |-> "none", message |-> ""]
Notification(m, t) == [type |-> t, message |-> m]

\* showNotification is defined by the page that loads the script
ShowNotificationIsFunction == TRUE

\* if (typeof showNotification === 'function') showNotification(m, t)
Shown(m, t) == IF ShowNotificationIsFunction THEN Notification(m, t) ELSE NoNotification

IdleLabel == "Aplicar Ajustes"
BusyLabel == "Aplicando..."

\* ------------------------------------------------------------ D3 pieces
\* selection.data(data, key): the element that datum i is bound to, 0 when the
\* datum enters. Of the old elements with one key only the first is kept for
\* matching, and it is matched by the first datum with that key.
BindKey(oldKeys, newKeys) ==
    [i \in 1..Len(newKeys) |->
        LET same == {j \in 1..Len(oldKeys) : oldKeys[j] = newKeys[i]}
            first == CHOOSE j \in same : \A k \in same : j <= k
        IN  IF same # {} /\ \A h \in 1..(i - 1) : newKeys[h] # newKeys[i]
            THEN first ELSE 0]

\* the "selected" class stays on an element that the join keeps
KeptSelected(match, oldSelected) ==
    {i \in DOMAIN match : match[i] # 0 /\ match[i] \in oldSelected}

\* d => d.id
NodeKey(d) == d.id

\* d => `${d.source.id}-${d.target.id}`: an endpoint that is still an id string
\* has no `.id`
LinkKey(d) ==
    (IF d.srcObj THEN d.source ELSE "undefined") \o "-"
        \o (IF d.tgtObj THEN d.target ELSE "undefined")

NodeKeys(data) == [i \in 1..Len(data) |-> NodeKey(data[i])]
LinkKeys(data) == [i \in 1..Len(data) |-> LinkKey(data[i])]

\* the simulation keeping the nodes of the earlier snapshots beside the new ones
InitializeNodesKeepingOld(nodes) ==
    simNodes \o [i \in 1..Len(nodes) |->
        [id |-> nodes[i].id, label |-> nodes[i].label,
         relevance |-> nodes[i].relevance, init |-> i, ticks |-> 0,
         at |-> 0, fx |-> NoPin]]

\* simulation.nodes(nodes): every node object without coordinates gets the
\* initial position of its index. The objects come fresh from the map of
\* updateVisualization, so none has coordinates and none is pinned.
\* A node stands where `ticks` steps of the simulation took it from the
\* initial position `init`, or from the pointer position `at` it was dragged
\* to (0: never dragged).
InitializeNodes(nodes) ==
    [i \in 1..Len(nodes) |->
        [id |-> nodes[i].id, label |-> nodes[i].label,
         relevance |-> nodes[i].relevance, init |-> i, ticks |-> 0,
         at |-> 0, fx |-> NoPin]]

NodeIds(nodes) == {nodes[i].id : i \in 1..Len(nodes)}

Resolvable(l, ids) == l.source \in ids /\ l.target \in ids

\* forceLink.links(links): endpoints are replaced by node objects in order,
\* source then target; the first id that names no node raises
\* "node not found" and leaves the rest as strings
InitializeLinks(links, ids) ==
    [i \in 1..Len(links) |->
        LET before == \A h \in 1..(i - 1) : Resolvable(links[h], ids)
        IN  [source |-> links[i].source, target |-> links[i].target,
             weight |-> links[i].weight, id |-> links[i].id,
             srcObj |-> before /\ links[i].source \in ids,
             tgtObj |-> before /\ Resolvable(links[i], ids)]]

LinkForceThrows(links, ids) == \E i \in 1..Len(links) : ~Resolvable(links[i], ids)

Unbound(links) ==
    [i \in 1..Len(links) |->
        [source |-> links[i].source, target |-> links[i].target,
         weight |-> links[i].weight, id |-> links[i].id,
         srcObj |-> FALSE, tgtObj |-> FALSE]]

\* ---------------------------------------------------- updateVisualization
\* the state that updateVisualization reads and writes
CurrentScene ==
    [outcome |-> "none", currentHotData |-> currentHotData, simNodes |-> simNodes,
     linkData |-> linkData, selectedNodes |-> selectedNodes,
     selectedLinks |-> selectedLinks, attached |-> attached,
     alpha |-> alpha, running |-> running, drag |-> drag]

\* a gesture in progress keeps the datum it started with; once the simulation
\* holds fresh node objects that datum is none of them
Orphaned(d) == [d EXCEPT !.bound = FALSE, !.node = 0]

\* The scene after updateVisualization(hotData) and how the call ended:
\* "invalid" (early return), "threw" (an exception left it) or "ok".
UpdateVisualization(hotData) ==
    IF ~ValidHotData(hotData)
    THEN \* svg.selectAll("*").remove(): every element under the svg group leaves
         \* the document
         [CurrentScene EXCEPT !.outcome = "invalid", !.attached = FALSE]
    ELSE IF TransformThrows(hotData)
    THEN \* currentHotData was assigned before the transformation raised
         [CurrentScene EXCEPT !.outcome = "threw", !.currentHotData = hotData]
    ELSE LET nodes == NormalizeNodes(hotData.nodes)
             links == ProjectLinks(hotData.edges)
             nodeMatch == BindKey(NodeKeys(simNodes), NodeKeys(nodes))
             linkMatch == BindKey(LinkKeys(linkData), LinkKeys(Unbound(links)))
             ids == NodeIds(nodes)
             threw == LinkForceThrows(links, ids)
         IN  [outcome |-> IF threw THEN "threw" ELSE "ok",
              currentHotData |-> hotData,
              simNodes |-> InitializeNodes(nodes),
              linkData |-> InitializeLinks(links, ids),
              selectedNodes |-> KeptSelected(nodeMatch, selectedNodes),
              selectedLinks |-> KeptSelected(linkMatch, selectedLinks),
              attached |-> attached,
              \* simulation.alpha(1).restart() comes after links(links)
              alpha |-> IF threw THEN alpha ELSE FullAlpha,
              running |-> IF threw THEN running ELSE TRUE,
              drag |-> Orphaned(drag)]

SetScene(s) ==
    /\ currentHotData' = s.currentHotData
    /\ simNodes' = s.simNodes
    /\ linkData' = s.linkData
    /\ selectedNodes' = s.selectedNodes
    /\ selectedLinks' = s.selectedLinks
    /\ attached' = s.attached
    /\ alpha' = s.alpha
    /\ running' = s.running
    /\ drag' = s.drag
    /\ alphaTarget' = alphaTarget

\* what the user can see and click: elements that are in the document
RenderedNodes == IF attached THEN simNodes ELSE <<>>
RenderedLinks == IF attached THEN linkData ELSE <<>>
HighlightedNodes == IF attached THEN selectedNodes ELSE {}
HighlightedLinks == IF attached THEN selectedLinks ELSE {}

\* ------------------------------------------------------------ selection
\* selectElement('node', d.id, d), event.target being circle i
SelectNode(i) ==
    LET d == simNodes[i]
    IN  /\ selectedElement' = Selection("node", d.id)
        /\ selectedNodes' = {i}
        /\ selectedLinks' = {}
        /\ relevanceDisabled' = FALSE
        /\ relevanceValue' = NumberToString(OrHalf(d.relevance))
        /\ weightDisabled' = TRUE
        /\ weightValue' = weightValue
        /\ applyDisabled' = FALSE
        /\ applyLabel' = applyLabel
        /\ raised' = FALSE

\* currentHotData.edges.find(e => e.id === edgeId)
FindEdge(edgeId) ==
    LET hits == {k \in 1..Len(currentHotData.edges) : currentHotData.edges[k].id = edgeId}
    IN  IF hits = {} THEN 0 ELSE CHOOSE k \in hits : \A h \in hits : k <= h

\* selectElement for an edge that highlights one line of the hyperedge only
SelectEdgeOneLine(edgeId) ==
    LET k == FindEdge(edgeId)
        mine == {i \in 1..Len(linkData) : linkData[i].id = edgeId}
    IN  /\ selectedElement' = Selection("edge", edgeId)
        /\ selectedNodes' = {}
        /\ selectedLinks' = {i \in mine : \A j \in mine : i <= j}
        /\ weightDisabled' = FALSE
        /\ applyLabel' = applyLabel
        /\ relevanceValue' = relevanceValue
        /\ IF k # 0
           THEN /\ weightValue' = NumberToString(OrHalf(currentHotData.edges[k].weight))
                /\ relevanceDisabled' = TRUE
                /\ applyDisabled' = FALSE
                /\ raised' = FALSE
           ELSE /\ weightValue' = weightValue
                /\ relevanceDisabled' = relevanceDisabled
                /\ applyDisabled' = applyDisabled
                /\ raised' = TRUE

\* selectElement('edge', edgeId, edgeData). When find gave undefined, reading
\* data.weight raises after the weight slider was enabled; the rest of the
\* function does not run.
SelectEdge(edgeId) ==
    LET k == FindEdge(edgeId)
    IN  /\ selectedElement' = Selection("edge", edgeId)
        /\ selectedNodes' = {}
        /\ selectedLinks' = {i \in 1..Len(linkData) : linkData[i].id = edgeId}
        /\ weightDisabled' = FALSE
        /\ applyLabel' = applyLabel
        /\ relevanceValue' = relevanceValue
        /\ IF k # 0
           THEN /\ weightValue' = NumberToString(OrHalf(currentHotData.edges[k].weight))
                /\ relevanceDisabled' = TRUE
                /\ applyDisabled' = FALSE
                /\ raised' = FALSE
           ELSE /\ weightValue' = weightValue
                /\ relevanceDisabled' = relevanceDisabled
                /\ applyDisabled' = applyDisabled
                /\ raised' = TRUE

\* deselectElement() without the line that disables the apply button
DeselectLeavingApply ==
    /\ selectedElement' = NoSelection
    /\ weightDisabled' = TRUE
    /\ relevanceDisabled' = TRUE
    /\ applyDisabled' = applyDisabled
    /\ selectedNodes' = {}
    /\ selectedLinks' = {}
    /\ UNCHANGED <<weightValue, relevanceValue>>

\* deselectElement(); the apply label is left to the caller
Deselect ==
    /\ selectedElement' = NoSelection
    /\ weightDisabled' = TRUE
    /\ relevanceDisabled' = TRUE
    /\ applyDisabled' = TRUE
    /\ selectedNodes' = {}
    /\ selectedLinks' = {}
    /\ UNCHANGED <<weightValue, relevanceValue>>

\* ------------------------------------------------------- click handlers
nodeClicked ==
    \E i \in 1..Len(RenderedNodes) :
        /\ SelectNode(i)
        /\ lastOp' = "nodeClicked"
        /\ clickTarget' = i
        /\ lastPoll' = NoPoll
        /\ delivered' = <<>>
        /\ lastResp' = NoResp
        /\ lastOutcome' = "none"
        /\ notified' = NoNotification
        /\ UNCHANGED <<currentHotData, simNodes, linkData, attached, inflight, hotFetch>>
        /\ UNCHANGED projVars
        /\ UNCHANGED settingsVars
        /\ UNCHANGED chatVars
        /\ UNCHANGED pollVars
        /\ UNCHANGED layoutVars
        /\ UNCHANGED energyVars

linkClicked ==
    \E i \in 1..Len(RenderedLinks) :
        /\ IF linkData[i].id # ""
           THEN SelectEdge(linkData[i].id)
           ELSE /\ raised' = FALSE
                /\ UNCHANGED <<selectedElement, selectedNodes, selectedLinks>>
                /\ UNCHANGED controlVars
                /\ UNCHANGED applyVars
        /\ lastOp' = "linkClicked"
        /\ clickTarget' = i
        /\ lastPoll' = NoPoll
        /\ delivered' = <<>>
        /\ lastResp' = NoResp
        /\ lastOutcome' = "none"
        /\ notified' = NoNotification
        /\ UNCHANGED <<currentHotData, simNodes, linkData, attached, inflight, hotFetch>>
        /\ UNCHANGED projVars
        /\ UNCHANGED settingsVars
        /\ UNCHANGED chatVars
        /\ UNCHANGED pollVars
        /\ UNCHANGED layoutVars
        /\ UNCHANGED energyVars

\* `if (svg) svg.on("click", backgroundClicked)` runs while the script is set
\* up, before setupD3() has assigned svg
SvgWhenListenerIsAdded == "null"
BackgroundListenerAdded == SvgWhenListenerIsAdded # "null"

\* a click on the empty background of the visualization
backgroundClicked ==
    /\ attached
    /\ IF BackgroundListenerAdded
       THEN Deselect
       ELSE /\ UNCHANGED <<selectedElement, selectedNodes, selectedLinks>>
            /\ UNCHANGED controlVars
            /\ applyDisabled' = applyDisabled
    /\ applyLabel' = applyLabel
    /\ raised' = FALSE
    /\ lastOp' = "backgroundClicked"
    /\ clickTarget' = 0
    /\ lastPoll' = NoPoll
    /\ delivered' = <<>>
    /\ lastResp' = NoResp
    /\ lastOutcome' = "none"
    /\ notified' = NoNotification
    /\ UNCHANGED <<currentHotData, simNodes, linkData, attached, inflight, hotFetch>>
    /\ UNCHANGED projVars
    /\ UNCHANGED settingsVars
    /\ UNCHANGED chatVars
    /\ UNCHANGED pollVars
    /\ UNCHANGED layoutVars
    /\ UNCHANGED energyVars

\* the reset handler without its deselectElement() call
resetClickedKeepingSelection ==
    /\ UNCHANGED <<selectedElement, selectedNodes, selectedLinks>>
    /\ UNCHANGED controlVars
    /\ UNCHANGED applyVars
    /\ raised' = FALSE
    /\ alpha' = FullAlpha
    /\ running' = TRUE
    /\ UNCHANGED <<alphaTarget, drag>>
    /\ lastOp' = "resetClicked"
    /\ clickTarget' = 0
    /\ lastPoll' = NoPoll
    /\ delivered' = <<>>
    /\ lastResp' = NoResp
    /\ lastOutcome' = "none"
    /\ notified' = NoNotification
    /\ UNCHANGED <<currentHotData, simNodes, linkData, attached, inflight, hotFetch>>
    /\ UNCHANGED projVars
    /\ UNCHANGED settingsVars
    /\ UNCHANGED chatVars
    /\ UNCHANGED pollVars
    /\ UNCHANGED layoutVars

\* the reset handler starting the layout over from the initial placement
resetClickedFromScratch ==
    /\ Deselect
    /\ applyLabel' = applyLabel
    /\ raised' = FALSE
    /\ alpha' = FullAlpha
    /\ running' = TRUE
    /\ simNodes' = InitializeNodes(simNodes)
    /\ UNCHANGED <<alphaTarget, drag>>
    /\ lastOp' = "resetClicked"
    /\ clickTarget' = 0
    /\ lastPoll' = NoPoll
    /\ delivered' = <<>>
    /\ lastResp' = NoResp
    /\ lastOutcome' = "none"
    /\ notified' = NoNotification
    /\ UNCHANGED <<currentHotData, linkData, attached, inflight, hotFetch>>
    /\ UNCHANGED projVars
    /\ UNCHANGED settingsVars
    /\ UNCHANGED chatVars
    /\ UNCHANGED pollVars
    /\ UNCHANGED layoutVars

\* resetButton click: simulation.alpha(1).restart(), zoom reset, deselectElement()
resetClicked ==
    /\ Deselect
    /\ applyLabel' = applyLabel
    /\ raised' = FALSE
    /\ alpha' = FullAlpha
    /\ running' = TRUE
    /\ UNCHANGED <<alphaTarget, drag>>
    /\ lastOp' = "resetClicked"
    /\ clickTarget' = 0
    /\ lastPoll' = NoPoll
    /\ delivered' = <<>>
    /\ lastResp' = NoResp
    /\ lastOutcome' = "none"
    /\ notified' = NoNotification
    /\ UNCHANGED <<currentHotData, simNodes, linkData, attached, inflight, hotFetch>>
    /\ UNCHANGED projVars
    /\ UNCHANGED settingsVars
    /\ UNCHANGED chatVars
    /\ UNCHANGED pollVars
    /\ UNCHANGED layoutVars

\* values the user drags a slider to
UserValues == {"0.3"}


\* the weight slider writing its value into the stored snapshot
weightInputOptimistic ==
    \E v \in UserValues :
        /\ ~weightDisabled
        /\ weightValue' = v
        /\ currentHotData' =
                [currentHotData EXCEPT !.edges =
                    [k \in DOMAIN @ |->
                        IF @[k].id = selectedElement.id
                        THEN [@[k] EXCEPT !.weight = ParseFloat(v)]
                        ELSE @[k]]]
        /\ lastOp' = "weightInput"
        /\ clickTarget' = 0
        /\ lastPoll' = NoPoll
        /\ delivered' = <<>>
        /\ lastResp' = NoResp
        /\ lastOutcome' = "none"
        /\ raised' = FALSE
        /\ notified' = NoNotification
        /\ UNCHANGED <<selectedElement, relevanceDisabled, relevanceValue, weightDisabled,
                       inflight, hotFetch>>
        /\ UNCHANGED <<simNodes, linkData, selectedNodes, selectedLinks, attached>>
        /\ UNCHANGED applyVars
        /\ UNCHANGED projVars
        /\ UNCHANGED settingsVars
        /\ UNCHANGED chatVars
        /\ UNCHANGED pollVars
        /\ UNCHANGED layoutVars
        /\ UNCHANGED energyVars

\* edgeWeightSlider input: only the value label follows the slider
weightInput ==
    \E v \in UserValues :
        /\ ~weightDisabled
        /\ weightValue' = v
        /\ lastOp' = "weightInput"
        /\ clickTarget' = 0
        /\ lastPoll' = NoPoll
        /\ delivered' = <<>>
        /\ lastResp' = NoResp
        /\ lastOutcome' = "none"
        /\ raised' = FALSE
        /\ notified' = NoNotification
        /\ UNCHANGED <<selectedElement, relevanceDisabled, relevanceValue, weightDisabled,
                       inflight, hotFetch>>
        /\ UNCHANGED sceneVars
        /\ UNCHANGED applyVars
        /\ UNCHANGED projVars
        /\ UNCHANGED settingsVars
        /\ UNCHANGED chatVars
        /\ UNCHANGED pollVars
        /\ UNCHANGED layoutVars
        /\ UNCHANGED energyVars

relevanceInput ==
    \E v \in UserValues :
        /\ ~relevanceDisabled
        /\ relevanceValue' = v
        /\ lastOp' = "relevanceInput"
        /\ clickTarget' = 0
        /\ lastPoll' = NoPoll
        /\ delivered' = <<>>
        /\ lastResp' = NoResp
        /\ lastOutcome' = "none"
        /\ raised' = FALSE
        /\ notified' = NoNotification
        /\ UNCHANGED <<selectedElement, relevanceDisabled, weightDisabled, weightValue,
                       inflight, hotFetch>>
        /\ UNCHANGED sceneVars
        /\ UNCHANGED applyVars
        /\ UNCHANGED projVars
        /\ UNCHANGED settingsVars
        /\ UNCHANGED chatVars
        /\ UNCHANGED pollVars
        /\ UNCHANGED layoutVars
        /\ UNCHANGED energyVars

\* ----------------------------------------------------------- adjustment
\* the handler sending both values whatever is selected
BothFieldsAdjustmentData(sel, wv, rv) ==
    [element_id |-> sel.id,
     element_type |-> sel.type,
     new_weight |-> ParseFloat(wv),
     new_relevance |-> ParseFloat(rv)]

\* the handler with the two sliders mixed up
SwappedAdjustmentData(sel, wv, rv) ==
    [element_id |-> sel.id,
     element_type |-> sel.type,
     new_weight |-> IF sel.type = "edge" THEN ParseFloat(rv) ELSE Absent,
     new_relevance |-> IF sel.type = "edge" THEN Absent ELSE ParseFloat(wv)]

\* the adjustmentData object of the apply handler
AdjustmentData(sel, wv, rv) ==
    [element_id |-> sel.id,
     element_type |-> sel.type,
     new_weight |-> IF sel.type = "edge" THEN ParseFloat(wv) ELSE Absent,
     new_relevance |-> IF sel.type = "edge" THEN Absent ELSE ParseFloat(rv)]

\* The requests in flight are unordered; they are kept as a sequence sorted
\* by BodyRank so that one multiset has one representation.
IdOrder == <<"a", "b", "c", "z", "e1", "e2">>
BodyRank(b) ==
    100 * (CHOOSE k \in 1..Len(IdOrder) : IdOrder[k] = b.element_id)
        + 10 * (b.new_weight + 1) + (b.new_relevance + 1)

Insert(s, b) ==
    LET below == {i \in 1..Len(s) : BodyRank(s[i]) <= BodyRank(b)}
        n == Cardinality(below)
    IN  [i \in 1..(Len(s) + 1) |->
            IF i <= n THEN s[i] ELSE IF i = n + 1 THEN b ELSE s[i - 1]]

\* applyChangesButton click, up to the first await
applyClicked ==
    /\ ~applyDisabled
    /\ Len(inflight) < MaxInFlight
    /\ IF selectedElement = NoSelection
       THEN UNCHANGED <<inflight, applyDisabled, applyLabel>>
       ELSE /\ inflight' = Insert(inflight,
                    AdjustmentData(selectedElement, weightValue, relevanceValue))
            /\ applyDisabled' = TRUE
            /\ applyLabel' = BusyLabel
    /\ lastOp' = "applyClicked"
    /\ clickTarget' = 0
    /\ lastPoll' = NoPoll
    /\ delivered' = <<>>
    /\ lastResp' = NoResp
    /\ lastOutcome' = "none"
    /\ raised' = FALSE
    /\ notified' = NoNotification
    /\ UNCHANGED <<selectedElement, hotFetch>>
    /\ UNCHANGED sceneVars
    /\ UNCHANGED controlVars
    /\ UNCHANGED projVars
    /\ UNCHANGED settingsVars
    /\ UNCHANGED chatVars
    /\ UNCHANGED pollVars
    /\ UNCHANGED layoutVars
    /\ UNCHANGED energyVars

\* what POST /api/hot/adjust can answer
AdjustResponses ==
    {[kind |-> "ok", error |-> ""],
     [kind |-> "http", error |-> "db down"],
     [kind |-> "http", error |-> ""],
     [kind |-> "network", error |-> ""]}

\* the catch block without the server's error string
StatusOnlyErrorMessage(resp) ==
    IF resp.kind = "network" THEN "Failed to fetch" ELSE "HTTP error! status: 500"

\* error.message in the catch block of the apply handler
AdjustErrorMessage(resp) ==
    IF resp.kind = "network" THEN "Failed to fetch"
    ELSE IF resp.error # "" THEN resp.error
    ELSE "HTTP error! status: 500"

RemoveAt(s, k) == [i \in 1..(Len(s) - 1) |-> IF i < k THEN s[i] ELSE s[i + 1]]

\* the rest of the apply handler, run when request k is answered
adjustSucceeded ==
    \E k \in 1..Len(inflight) :
        /\ inflight' = RemoveAt(inflight, k)
        /\ notified' = Shown("Ajustes do Hipergrafo aplicados com sucesso!", "success")
        /\ Deselect
        /\ applyLabel' = IdleLabel
        /\ lastOp' = "adjustSucceeded"
        /\ clickTarget' = 0
        /\ lastPoll' = NoPoll
        /\ delivered' = <<>>
        /\ lastResp' = [kind |-> "ok", error |-> ""]
        /\ lastOutcome' = "none"
        /\ raised' = FALSE
        /\ UNCHANGED <<currentHotData, simNodes, linkData, attached, hotFetch>>
        /\ UNCHANGED projVars
        /\ UNCHANGED settingsVars
        /\ UNCHANGED chatVars
        /\ UNCHANGED pollVars
        /\ UNCHANGED layoutVars
        /\ UNCHANGED energyVars

adjustFailed ==
    \E k \in 1..Len(inflight), resp \in {r \in AdjustResponses : r.kind # "ok"} :
        /\ inflight' = RemoveAt(inflight, k)
        /\ notified' = Shown("Erro ao aplicar ajustes: " \o AdjustErrorMessage(resp),
                                    "error")
        /\ applyLabel' = IdleLabel
        /\ applyDisabled' = IF selectedElement # NoSelection THEN FALSE ELSE applyDisabled
        /\ lastOp' = "adjustFailed"
        /\ clickTarget' = 0
        /\ lastPoll' = NoPoll
        /\ delivered' = <<>>
        /\ lastResp' = resp
        /\ lastOutcome' = "none"
        /\ raised' = FALSE
        /\ UNCHANGED <<selectedElement, hotFetch>>
        /\ UNCHANGED sceneVars
        /\ UNCHANGED controlVars
        /\ UNCHANGED projVars
        /\ UNCHANGED settingsVars
        /\ UNCHANGED chatVars
        /\ UNCHANGED pollVars
        /\ UNCHANGED layoutVars
        /\ UNCHANGED energyVars

\* --------------------------------------------------- snapshot deliveries
\* fetchHotData after `await fetch('/api/hot/current')` answered with a body
FetchHotAnswered(bodies) ==
    \E data \in bodies :
        /\ hotFetch = "pending"
        /\ hotFetch' = "done"
        /\ IF ~ValidHotData(data)
           THEN /\ notified' = Shown(
                        "Nao foi possivel carregar os dados do hipergrafo.", "warning")
                /\ lastOutcome' = "invalid"
                /\ UNCHANGED sceneVars
                /\ UNCHANGED energyVars
           ELSE LET s == UpdateVisualization(data)
                IN  /\ lastOutcome' = s.outcome
                    /\ IF s.outcome = "threw"
                       THEN \* the catch block replaces the container's content
                            /\ SetScene([s EXCEPT !.attached = FALSE])
                            /\ notified' = Shown(
                                    "Erro ao carregar hipergrafo: exception", "error")
                       ELSE /\ SetScene(s)
                            /\ notified' = NoNotification
        /\ lastOp' = "fetchHotAnswered"
        /\ clickTarget' = 0
        /\ lastPoll' = NoPoll
        /\ delivered' = <<data>>
        /\ lastResp' = NoResp
        /\ raised' = FALSE
        /\ UNCHANGED <<selectedElement, inflight>>
        /\ UNCHANGED controlVars
        /\ UNCHANGED applyVars
        /\ UNCHANGED projVars
        /\ UNCHANGED settingsVars
        /\ UNCHANGED chatVars
        /\ UNCHANGED pollVars
        /\ UNCHANGED layoutVars

fetchHotAnswered == FetchHotAnswered(Snapshots)

\* fetchHotData when the request fails or answers with a non-success status
fetchHotFailed ==
    \E msg \in {"Failed to fetch", "HTTP error! status: 500"} :
        /\ hotFetch = "pending"
        /\ hotFetch' = "done"
        /\ notified' = Shown("Erro ao carregar hipergrafo: " \o msg, "error")
        /\ attached' = FALSE
        /\ lastOp' = "fetchHotFailed"
        /\ clickTarget' = 0
        /\ lastPoll' = NoPoll
        /\ delivered' = <<>>
        /\ lastResp' = NoResp
        /\ lastOutcome' = "none"
        /\ raised' = FALSE
        /\ UNCHANGED <<currentHotData, simNodes, linkData, selectedNodes, selectedLinks,
                       selectedElement, inflight>>
        /\ UNCHANGED controlVars
        /\ UNCHANGED applyVars
        /\ UNCHANGED projVars
        /\ UNCHANGED settingsVars
        /\ UNCHANGED chatVars
        /\ UNCHANGED pollVars
        /\ UNCHANGED layoutVars
        /\ UNCHANGED energyVars

\* the runs of fetchMetricsAndInsights that await a response
PollsPending == polls.metrics + polls.insightsAfterOk + polls.insightsAfterHttp

\* fetchMetricsAndInsights() up to its first await
StartPoll ==
    /\ metricsRegion' = "loading"
    /\ insightsRegion' = "loading"
    /\ polls' = [polls EXCEPT !.metrics = @ + 1]

\* window.updateHypergraph(newData): an exception of updateVisualization
\* leaves the function before fetchMetricsAndInsights() is called
UpdateHypergraph(bodies) ==
    \E newData \in bodies :
        LET s == UpdateVisualization(newData)
        IN  /\ PollsPending < MaxPolls
            /\ SetScene(s)
            /\ lastOutcome' = s.outcome
            /\ raised' = (s.outcome = "threw")
            /\ IF s.outcome = "threw" THEN UNCHANGED pollVars ELSE StartPoll
            /\ lastOp' = "updateHypergraph"
            /\ clickTarget' = 0
            /\ lastPoll' = NoPoll
            /\ delivered' = <<newData>>
            /\ lastResp' = NoResp
            /\ notified' = NoNotification
            /\ UNCHANGED <<selectedElement, inflight, hotFetch>>
            /\ UNCHANGED controlVars
            /\ UNCHANGED applyVars
            /\ UNCHANGED projVars
            /\ UNCHANGED settingsVars
            /\ UNCHANGED layoutVars

updateHypergraph == UpdateHypergraph(Snapshots) /\ UNCHANGED chatVars

\* one step of the running simulation: every free node moves, a pinned node
\* is put at its fx
Step(n) ==
    IF n.fx = NoPin THEN [n EXCEPT !.ticks = @ + 1]
    ELSE IF n.fx = Here THEN n
    ELSE [n EXCEPT !.at = n.fx, !.ticks = 0]

ticked ==
    /\ running
    /\ simNodes # <<>>
    /\ \A i \in 1..Len(simNodes) : simNodes[i].fx = NoPin => simNodes[i].ticks < MaxTicks
    /\ simNodes' = [i \in 1..Len(simNodes) |-> Step(simNodes[i])]
    /\ lastOp' = "ticked"
    /\ clickTarget' = 0
    /\ lastPoll' = NoPoll
    /\ delivered' = <<>>
    /\ lastResp' = NoResp
    /\ lastOutcome' = "none"
    /\ raised' = FALSE
    /\ notified' = NoNotification
    /\ UNCHANGED <<currentHotData, linkData, selectedNodes, selectedLinks, attached,
                   selectedElement, inflight, hotFetch>>
    /\ UNCHANGED controlVars
    /\ UNCHANGED applyVars
    /\ UNCHANGED projVars
    /\ UNCHANGED settingsVars
    /\ UNCHANGED chatVars
    /\ UNCHANGED pollVars
    /\ UNCHANGED layoutVars
    /\ UNCHANGED energyVars

\* what every handler of the simulation and the poller leaves alone
quiet ==
    /\ clickTarget' = 0
    /\ lastResp' = NoResp
    /\ lastOutcome' = "none"
    /\ raised' = FALSE
    /\ notified' = NoNotification
    /\ UNCHANGED <<currentHotData, linkData, selectedNodes, selectedLinks, attached,
                   selectedElement, inflight, hotFetch>>
    /\ UNCHANGED controlVars
    /\ UNCHANGED applyVars
    /\ UNCHANGED projVars
    /\ UNCHANGED settingsVars
    /\ UNCHANGED chatVars

\* with alphaTarget 0 the energy decays under alphaMin and the timer stops
cooled ==
    /\ running
    /\ alphaTarget = RestAlphaTarget
    /\ running' = FALSE
    /\ alpha' = Settled
    /\ lastOp' = "cooled"
    /\ lastPoll' = NoPoll
    /\ delivered' = <<>>
    /\ quiet
    /\ UNCHANGED <<simNodes, alphaTarget, drag>>
    /\ UNCHANGED pollVars
    /\ UNCHANGED layoutVars

\* ------------------------------------------------------------- dragging
\* where the pointer can be during a gesture
PointerPositions == {1, 2}

Pin(nodes, i, p) == [nodes EXCEPT ![i].fx = p]

\* dragstarted(event, d) on circle i; one pointer, so event.active is 0
dragstarted ==
    \E i \in 1..Len(RenderedNodes) :
        /\ ~drag.on
        /\ alphaTarget' = DragAlphaTarget
        /\ running' = TRUE
        /\ alpha' = alpha
        /\ simNodes' = Pin(simNodes, i, Here)
        /\ drag' = [on |-> TRUE, node |-> i, bound |-> TRUE]
        /\ lastOp' = "dragstarted"
        /\ lastPoll' = NoPoll
        /\ delivered' = <<>>
        /\ quiet
        /\ UNCHANGED pollVars
        /\ UNCHANGED layoutVars

\* dragged(event, d): d is the datum the gesture started with
dragged ==
    \E p \in PointerPositions :
        /\ drag.on
        /\ simNodes' = IF drag.bound THEN Pin(simNodes, drag.node, p) ELSE simNodes
        /\ lastOp' = "dragged"
        /\ lastPoll' = NoPoll
        /\ delivered' = <<>>
        /\ quiet
        /\ UNCHANGED energyVars
        /\ UNCHANGED pollVars
        /\ UNCHANGED layoutVars

\* dragended(event, d)
dragended ==
    /\ drag.on
    /\ alphaTarget' = RestAlphaTarget
    /\ simNodes' = IF drag.bound THEN Pin(simNodes, drag.node, NoPin) ELSE simNodes
    /\ drag' = NoDrag
    /\ lastOp' = "dragended"
    /\ lastPoll' = NoPoll
    /\ delivered' = <<>>
    /\ quiet
    /\ UNCHANGED <<alpha, running>>
    /\ UNCHANGED pollVars
    /\ UNCHANGED layoutVars

\* --------------------------------------------------------- layout force
\* `if (layoutForceSlider && layoutForceValue && simulation)` runs while the
\* script is set up, before setupD3() has assigned simulation
SimulationWhenListenerIsAdded == "null"
LayoutListenerAdded == SimulationWhenListenerIsAdded # "null"

\* the user moves the layout-force slider
layoutForceInput ==
    \E v \in UserValues :
        /\ layoutForce' = v
        /\ IF LayoutListenerAdded
           THEN /\ charge' = ParseFloat(v) * ChargePerTenth
                /\ alpha' = ReheatAlpha
                /\ running' = TRUE
           ELSE UNCHANGED <<charge, alpha, running>>
        /\ lastOp' = "layoutForceInput"
        /\ lastPoll' = NoPoll
        /\ delivered' = <<>>
        /\ quiet
        /\ UNCHANGED <<simNodes, alphaTarget, drag>>
        /\ UNCHANGED pollVars

\* ------------------------------------------------- metrics and insights
\* how a GET of the poller can end: a success status, another status, or a
\* rejected fetch
PollResponses == {"ok", "http", "network"}

\* the catch block of fetchMetricsAndInsights
PollFailed ==
    /\ metricsRegion' = "error"
    /\ insightsRegion' = "error"

\* `await fetch('/api/hot/metrics')` is answered; a response of any status
\* lets the run go on to fetch the insights
metricsAnswered ==
    \E r \in PollResponses :
        /\ polls.metrics > 0
        /\ IF r = "network"
           THEN /\ PollFailed
                /\ polls' = [polls EXCEPT !.metrics = @ - 1]
                /\ lastPoll' = [metrics |-> r, insights |-> "unsent"]
                /\ delivered' = <<>>
           ELSE /\ UNCHANGED <<metricsRegion, insightsRegion>>
                /\ polls' = IF r = "ok"
                            THEN [polls EXCEPT !.metrics = @ - 1, !.insightsAfterOk = @ + 1]
                            ELSE [polls EXCEPT !.metrics = @ - 1, !.insightsAfterHttp = @ + 1]
                /\ lastPoll' = NoPoll
                /\ delivered' = <<>>
        /\ lastOp' = "metricsAnswered"
        /\ quiet
        /\ UNCHANGED simNodes
        /\ UNCHANGED energyVars
        /\ UNCHANGED layoutVars

\* `await fetch('/api/hot/insights')` is answered and the run ends: both
\* regions are filled when both statuses are a success, else the one catch
\* block runs
InsightsAnswered(m) ==
    \E r \in PollResponses :
        /\ IF m = "ok"
           THEN /\ polls.insightsAfterOk > 0
                /\ polls' = [polls EXCEPT !.insightsAfterOk = @ - 1]
           ELSE /\ polls.insightsAfterHttp > 0
                /\ polls' = [polls EXCEPT !.insightsAfterHttp = @ - 1]
        /\ IF m = "ok" /\ r = "ok"
           THEN /\ metricsRegion' = "content"
                /\ insightsRegion' = "content"
           ELSE PollFailed
        /\ lastPoll' = [metrics |-> m, insights |-> r]
        /\ delivered' = <<>>
        /\ lastOp' = "insightsAnswered"
        /\ quiet
        /\ UNCHANGED simNodes
        /\ UNCHANGED energyVars
        /\ UNCHANGED layoutVars

insightsAnswered == InsightsAnswered("ok") \/ InsightsAnswered("http")

\* ------------------------------------------------------- settings page
\* what a handler of another page leaves alone on the hypergraph page
elsewhere ==
    /\ lastPoll' = NoPoll
    /\ delivered' = <<>>
    /\ clickTarget' = 0
    /\ lastResp' = NoResp
    /\ lastOutcome' = "none"
    /\ UNCHANGED <<currentHotData, simNodes, linkData, selectedNodes, selectedLinks,
                   attached, selectedElement, inflight, hotFetch>>
    /\ UNCHANGED controlVars
    /\ UNCHANGED applyVars
    /\ UNCHANGED projVars
    /\ UNCHANGED pollVars
    /\ UNCHANGED layoutVars
    /\ UNCHANGED energyVars

MaxSaves == 2

MinPasswordLength == 8

\* what the user types into the password inputs
NewPasswords == {"", "short12", "password", "passw0rd"}

SaveIdleLabel == "Salvar Configuracoes"
SaveBusyLabel == "Salvando..."

\* validatePasswords with `<=` for `<` in the length check
PasswordCheckOverEight(cur, new, conf) ==
    IF new # "" \/ conf # ""
    THEN IF cur = "" THEN "current"
         ELSE IF Len(new) <= MinPasswordLength THEN "length"
         ELSE IF new # conf THEN "mismatch"
         ELSE "valid"
    ELSE "valid"

\* validatePasswords: the check that fails first, or "valid"
PasswordCheck(cur, new, conf) ==
    IF new # "" \/ conf # ""
    THEN IF cur = "" THEN "current"
         ELSE IF Len(new) < MinPasswordLength THEN "length"
         ELSE IF new # conf THEN "mismatch"
         ELSE "valid"
    ELSE "valid"

ValidatePasswords(cur, new, conf) == PasswordCheck(cur, new, conf) = "valid"

\* the notification of the failed check
PasswordNotification(check) ==
    IF check = "current"
    THEN Shown("Por favor, digite sua senha atual para alterar a senha.", "warning")
    ELSE IF check = "length"
    THEN Shown("A nova senha deve ter pelo menos 8 caracteres.", "warning")
    ELSE IF check = "mismatch"
    THEN Shown("As novas senhas nao coincidem.", "error")
    ELSE NoNotification

NoPassword == [currentPassword |-> "", newPassword |-> ""]

\* payload of handleSaveSettings: the password key is there only for a
\* non-empty new password
SavePayload(cur, new) ==
    [hasPassword |-> new # "",
     password |-> IF new # ""
                  THEN [currentPassword |-> cur, newPassword |-> new]
                  ELSE NoPassword]

\* the user types into one of the three password inputs
passwordTyped ==
    /\ \/ currentPassword' \in {"", "old"} /\ UNCHANGED <<newPassword, confirmPassword>>
       \/ newPassword' \in NewPasswords /\ UNCHANGED <<currentPassword, confirmPassword>>
       \/ confirmPassword' \in NewPasswords /\ UNCHANGED <<currentPassword, newPassword>>
    /\ lastValid' = "none"
    /\ lastOp' = "passwordTyped"
    /\ raised' = FALSE
    /\ notified' = NoNotification
    /\ UNCHANGED <<saveDisabled, saveLabel, saveInflight, modelList, modelsFetch,
                   initLoad, formLoaded, resetDisabled, resetPhase>>
    /\ UNCHANGED chatVars
    /\ elsewhere

\* handleSaveSettings up to its await
saveClicked ==
    LET check == PasswordCheck(currentPassword, newPassword, confirmPassword)
    IN  /\ ~saveDisabled
        /\ Len(saveInflight) < MaxSaves
        /\ lastValid' = IF ValidatePasswords(currentPassword, newPassword, confirmPassword)
                        THEN "true" ELSE "false"
        /\ notified' = PasswordNotification(check)
        /\ IF ValidatePasswords(currentPassword, newPassword, confirmPassword)
           THEN /\ saveDisabled' = TRUE
                /\ saveLabel' = SaveBusyLabel
                /\ saveInflight' = Append(saveInflight,
                                          SavePayload(currentPassword, newPassword))
           ELSE UNCHANGED <<saveDisabled, saveLabel, saveInflight>>
        /\ lastOp' = "saveClicked"
        /\ raised' = FALSE
        /\ UNCHANGED <<currentPassword, newPassword, confirmPassword, modelList,
                       modelsFetch, initLoad, formLoaded, resetDisabled, resetPhase>>
        /\ UNCHANGED chatVars
        /\ elsewhere

\* what fetchData can end with
FetchResponses == {"ok", "http", "network"}

\* fetchData's catch block notifies and rethrows
FetchNotification(resp) ==
    IF resp = "ok" THEN NoNotification
    ELSE IF resp = "http"
    THEN Shown("Erro ao comunicar com o servidor: HTTP error! status: 500", "error")
    ELSE Shown("Erro ao comunicar com o servidor: Failed to fetch", "error")

\* the save handler whose failure path leaves the button as it is
SaveButtonAfterFailureOnly(resp) ==
    IF resp = "ok" THEN [disabled |-> FALSE, label |-> SaveIdleLabel]
    ELSE [disabled |-> saveDisabled, label |-> saveLabel]

\* the finally block of handleSaveSettings
SaveButtonAfter(resp) == [disabled |-> FALSE, label |-> SaveIdleLabel]

\* the rest of handleSaveSettings, run when the request is answered
saveAnswered ==
    \E resp \in FetchResponses :
        /\ saveInflight # <<>>
        /\ saveInflight' = Tail(saveInflight)
        /\ IF resp = "ok"
           THEN /\ notified' = Shown("Configuracoes salvas com sucesso!", "success")
                /\ currentPassword' = ""
                /\ newPassword' = ""
                /\ confirmPassword' = ""
           ELSE /\ notified' = FetchNotification(resp)
                /\ UNCHANGED <<currentPassword, newPassword, confirmPassword>>
        /\ saveDisabled' = SaveButtonAfter(resp).disabled
        /\ saveLabel' = SaveButtonAfter(resp).label
        /\ lastValid' = "none"
        /\ lastOp' = IF resp = "ok" THEN "saveSucceeded" ELSE "saveFailed"
        /\ raised' = FALSE
        /\ UNCHANGED <<modelList, modelsFetch, initLoad, formLoaded, resetDisabled,
                       resetPhase>>
        /\ UNCHANGED chatVars
        /\ elsewhere

\* populateModelSelect after `await fetchData('/api/models')`: a body that is
\* no array makes models.forEach raise into the same catch block
modelsAnswered ==
    \E resp \in FetchResponses \cup {"notArray"} :
        /\ modelsFetch = "pending"
        /\ modelsFetch' = "done"
        /\ IF resp = "ok"
           THEN \* loadSettings() is called and runs to its await
                /\ modelList' = "populated"
                /\ initLoad' = "pending"
                /\ notified' = NoNotification
           ELSE /\ modelList' = "error"
                /\ initLoad' = initLoad
                /\ notified' = IF resp = "notArray" THEN NoNotification
                               ELSE FetchNotification(resp)
        /\ lastValid' = "none"
        /\ lastOp' = "modelsAnswered"
        /\ raised' = FALSE
        /\ UNCHANGED <<currentPassword, newPassword, confirmPassword, saveDisabled,
                       saveLabel, saveInflight, formLoaded, resetDisabled, resetPhase>>
        /\ UNCHANGED chatVars
        /\ elsewhere

\* the notification of loadSettings' catch block
LoadNotification(resp) ==
    IF resp = "ok" THEN NoNotification
    ELSE Shown("Nao foi possivel carregar as configuracoes atuais.", "error")

\* loadSettings after its await, for the run that populateModelSelect started
initLoadAnswered ==
    \E resp \in FetchResponses :
        /\ initLoad = "pending"
        /\ initLoad' = "done"
        /\ formLoaded' = (formLoaded \/ resp = "ok")
        /\ notified' = LoadNotification(resp)
        /\ lastValid' = "none"
        /\ lastOp' = "initLoadAnswered"
        /\ raised' = FALSE
        /\ UNCHANGED <<currentPassword, newPassword, confirmPassword, saveDisabled,
                       saveLabel, saveInflight, modelList, modelsFetch, resetDisabled,
                       resetPhase>>
        /\ UNCHANGED chatVars
        /\ elsewhere

\* handleResetSettings up to its first await; the user answers the confirm
resetSettingsClicked ==
    \E confirmed \in BOOLEAN :
        /\ ~resetDisabled
        /\ resetDisabled' = confirmed
        /\ resetPhase' = IF confirmed THEN "posting" ELSE resetPhase
        /\ lastValid' = "none"
        /\ lastOp' = "resetSettingsClicked"
        /\ raised' = FALSE
        /\ notified' = NoNotification
        /\ UNCHANGED <<currentPassword, newPassword, confirmPassword, saveDisabled,
                       saveLabel, saveInflight, modelList, modelsFetch, initLoad,
                       formLoaded>>
        /\ UNCHANGED chatVars
        /\ elsewhere

\* POST /api/settings/reset is answered: on success loadSettings is awaited
resetAnswered ==
    \E resp \in FetchResponses :
        /\ resetPhase = "posting"
        /\ IF resp = "ok"
           THEN /\ resetPhase' = "loading"
                /\ resetDisabled' = resetDisabled
                /\ notified' = Shown("Configuracoes restauradas para o padrao.", "info")
           ELSE /\ resetPhase' = "idle"
                /\ resetDisabled' = FALSE
                /\ notified' = FetchNotification(resp)
        /\ lastValid' = "none"
        /\ lastOp' = "resetAnswered"
        /\ raised' = FALSE
        /\ UNCHANGED <<currentPassword, newPassword, confirmPassword, saveDisabled,
                       saveLabel, saveInflight, modelList, modelsFetch, initLoad,
                       formLoaded>>
        /\ UNCHANGED chatVars
        /\ elsewhere

\* the loadSettings run of handleResetSettings is answered, then its finally
resetLoadAnswered ==
    \E resp \in FetchResponses :
        /\ resetPhase = "loading"
        /\ resetPhase' = "idle"
        /\ resetDisabled' = FALSE
        /\ formLoaded' = (formLoaded \/ resp = "ok")
        /\ notified' = LoadNotification(resp)
        /\ lastValid' = "none"
        /\ lastOp' = "resetLoadAnswered"
        /\ raised' = FALSE
        /\ UNCHANGED <<currentPassword, newPassword, confirmPassword, saveDisabled,
                       saveLabel, saveInflight, modelList, modelsFetch, initLoad>>
        /\ UNCHANGED chatVars
        /\ elsewhere

\* the settings page after DOMContentLoaded: populateModelSelect() awaits the
\* model list
InitSettings ==
    /\ currentPassword = ""
    /\ newPassword = ""
    /\ confirmPassword = ""
    /\ saveDisabled = FALSE
    /\ saveLabel = SaveIdleLabel
    /\ saveInflight = <<>>
    /\ lastValid = "none"
    /\ modelList = "initial"
    /\ modelsFetch = "pending"
    /\ initLoad = "idle"
    /\ formLoaded = FALSE
    /\ resetDisabled = FALSE
    /\ resetPhase = "idle"

\* ------------------------------------------------------------ chat page
MaxSends == 2

\* chatInput.value.trim()
Trim(text) == IF text \in {"", " "} THEN "" ELSE text

\* sendMessage is defined by the page's markup
SendMessageIsFunction == TRUE

chatTyped ==
    \* the user leaves text or a blank in the input
    /\ chatInput' \in {"hi", " "}
    /\ chatInput' # chatInput
    /\ lastOp' = "chatTyped"
    /\ raised' = FALSE
    /\ notified' = NoNotification
    /\ UNCHANGED <<chatModel, chatPending, chatIndicators, transcript, chatSent>>
    /\ UNCHANGED settingsVars
    /\ elsewhere

modelChosen ==
    /\ chatModel' \in {"", "model.gguf"}
    /\ chatModel' # chatModel
    /\ lastOp' = "modelChosen"
    /\ raised' = FALSE
    /\ notified' = NoNotification
    /\ UNCHANGED <<chatInput, chatPending, chatIndicators, transcript, chatSent>>
    /\ UNCHANGED settingsVars
    /\ elsewhere

\* handleSendMessage up to `await sendMessage(message)`
sendRequested ==
    /\ chatSent < MaxSends
    /\ IF chatModel = ""
       THEN /\ notified' = Shown(
                    "Por favor, selecione um modelo GGUF antes de enviar uma mensagem.",
                    "warning")
            /\ UNCHANGED chatVars
       ELSE IF Trim(chatInput) = ""
       THEN /\ notified' = NoNotification
            /\ UNCHANGED chatVars
       ELSE /\ notified' = NoNotification
            /\ transcript' = Append(transcript, "user")
            /\ chatInput' = ""
            /\ IF SendMessageIsFunction
               THEN /\ chatIndicators' = chatIndicators + 1
                    /\ chatPending' = chatPending + 1
                    /\ chatSent' = chatSent + 1
               ELSE \* the indicator is removed at once
                    UNCHANGED <<chatIndicators, chatPending, chatSent>>
            /\ chatModel' = chatModel
    /\ lastOp' = "sendRequested"
    /\ raised' = FALSE
    /\ UNCHANGED settingsVars
    /\ elsewhere

\* what `await sendMessage(message)` can end with, a reply that carries a
\* hypergraph update apart
SendOutcomes == {"reply", "error", "nodata", "rejected"}

\* removeTypingIndicator(typingIndicator) is the statement after the await:
\* a rejected promise leaves the handler before it
IndicatorsAfter(outcome) ==
    IF outcome = "rejected" THEN chatIndicators ELSE chatIndicators - 1

\* the rest of handleSendMessage; displayMessage(..., 'model error') raises in
\* classList.add, whose tokens must not contain a blank
sendAnswered ==
    \E outcome \in SendOutcomes :
        /\ chatPending > 0
        /\ chatPending' = chatPending - 1
        /\ chatIndicators' = IndicatorsAfter(outcome)
        /\ transcript' = IF outcome = "reply" THEN Append(transcript, "model")
                         ELSE transcript
        /\ raised' = (outcome \in {"rejected", "error"})
        /\ notified' = NoNotification
        /\ lastOp' = "sendAnswered"
        /\ UNCHANGED <<chatInput, chatModel, chatSent>>
        /\ UNCHANGED settingsVars
        /\ elsewhere

\* the snapshots a reply can carry as hotUpdate
ChatSnapshots == {SnapA, SnapNoMembers}

\* a reply with responseData.hotUpdate: after the indicator is removed and the
\* reply displayed, updateHypergraph(responseData.hotUpdate) runs
sendAnsweredWithUpdate ==
    /\ chatPending > 0
    /\ chatPending' = chatPending - 1
    /\ chatIndicators' = IndicatorsAfter("reply")
    /\ transcript' = Append(transcript, "model")
    /\ UNCHANGED <<chatInput, chatModel, chatSent>>
    /\ UpdateHypergraph(ChatSnapshots)

InitChat ==
    /\ chatInput = ""
    /\ chatModel = ""
    /\ chatPending = 0
    /\ chatIndicators = 0
    /\ transcript = <<>>
    /\ chatSent = 0

\* -------------------------------------------------------- specification
\* the controls as the page's markup declares them
InitialControls ==
    /\ relevanceDisabled = TRUE
    /\ relevanceValue = NumberToString(Half)
    /\ weightDisabled = TRUE
    /\ weightValue = NumberToString(Half)
    /\ applyDisabled = TRUE
    /\ applyLabel = IdleLabel
    /\ layoutForce = NumberToString(Half)

\* the page after the DOMContentLoaded handler has run: setupD3() is done and
\* fetchHotData() awaits its answer
InitPage ==
    /\ currentHotData = NullData
    /\ selectedElement = NoSelection
    /\ simNodes = <<>>
    /\ linkData = <<>>
    /\ selectedNodes = {}
    /\ selectedLinks = {}
    /\ attached = TRUE
    /\ InitialControls
    /\ inflight = <<>>
    /\ hotFetch = "pending"
    /\ lastOp = "init"
    /\ lastOutcome = "none"
    /\ raised = FALSE
    /\ notified = NoNotification
    /\ lastResp = NoResp
    /\ clickTarget = 0
    \* fetchMetricsAndInsights() of the initial load awaits its first answer
    /\ metricsRegion = "loading"
    /\ insightsRegion = "loading"
    /\ polls = [metrics |-> 1, insightsAfterOk |-> 0, insightsAfterHttp |-> 0]
    /\ lastPoll = NoPoll
    /\ delivered = <<>>
    \* d3.forceSimulation() starts its timer with alpha 1
    /\ charge = InitialCharge
    /\ alpha = FullAlpha
    /\ alphaTarget = RestAlphaTarget
    /\ running = TRUE
    /\ drag = NoDrag
    /\ InitSettings
    /\ InitChat

Init ==
    /\ InitPage
    /\ pEdges = <<>>
    /\ pLinks = <<>>
    /\ pDone = FALSE

Next ==
    \/ nodeClicked
    \/ linkClicked
    \/ backgroundClicked
    \/ resetClicked
    \/ weightInput
    \/ relevanceInput
    \/ applyClicked
    \/ adjustSucceeded
    \/ adjustFailed
    \/ fetchHotAnswered
    \/ fetchHotFailed
    \/ updateHypergraph
    \/ ticked
    \/ cooled
    \/ dragstarted
    \/ dragged
    \/ dragended
    \/ layoutForceInput
    \/ metricsAnswered
    \/ insightsAnswered

Spec == Init /\ [][Next]_vars

\* The scene and the selection without adjustment requests
NextScene ==
    \/ nodeClicked
    \/ linkClicked
    \/ backgroundClicked
    \/ resetClicked
    \/ weightInput
    \/ relevanceInput
    \/ fetchHotAnswered
    \/ fetchHotFailed
    \/ updateHypergraph
    \/ ticked

SpecScene == Init /\ [][NextScene]_vars

\* The adjustment protocol over the page as the initial fetch leaves it
AdjustSnapshots == {SnapA, SnapNoEdges}

fetchHotAnsweredOnce == FetchHotAnswered(AdjustSnapshots)

NextAdjust ==
    \/ nodeClicked
    \/ linkClicked
    \/ backgroundClicked
    \/ resetClicked
    \/ weightInput
    \/ relevanceInput
    \/ applyClicked
    \/ adjustSucceeded
    \/ adjustFailed
    \/ fetchHotAnsweredOnce
    \/ fetchHotFailed

SpecAdjust == Init /\ [][NextAdjust]_vars

\* The simulation: energy, layout force and drag gestures
updateHypergraphSome == UpdateHypergraph(AdjustSnapshots) /\ UNCHANGED chatVars

NextLayout ==
    \/ fetchHotAnsweredOnce
    \/ updateHypergraphSome
    \/ dragstarted
    \/ dragged
    \/ dragended
    \/ ticked
    \/ cooled
    \/ layoutForceInput
    \/ resetClicked

SpecLayout == Init /\ [][NextLayout]_vars

\* The three backend operations: the initial fetch, the adjustment and the
\* poller, with the global update callback
BackendSnapshots == {SnapA, SnapNoMembers, NullData}

fetchHotAnsweredValid == FetchHotAnswered({SnapA})

updateHypergraphAny == UpdateHypergraph(BackendSnapshots) /\ UNCHANGED chatVars

NextBackend ==
    \/ fetchHotAnsweredValid
    \/ fetchHotFailed
    \/ updateHypergraphAny
    \/ metricsAnswered
    \/ insightsAnswered
    \/ nodeClicked
    \/ applyClicked
    \/ adjustSucceeded
    \/ adjustFailed

SpecBackend == Init /\ [][NextBackend]_vars

\* Hyperedges that share a pair of nodes
SharedSnapshots == {SnapShared, SnapA, SnapNoMembers, NullData}

fetchHotAnsweredShared == FetchHotAnswered(SharedSnapshots)

updateHypergraphShared == UpdateHypergraph(SharedSnapshots) /\ UNCHANGED chatVars

NextShared ==
    \/ fetchHotAnsweredShared
    \/ fetchHotFailed
    \/ updateHypergraphShared
    \/ nodeClicked
    \/ linkClicked

SpecShared == Init /\ [][NextShared]_vars

\* The adjustment protocol beside the update callback and a failing fetch
updateHypergraphOne == UpdateHypergraph({SnapA}) /\ UNCHANGED chatVars

NextFrame ==
    \/ nodeClicked
    \/ linkClicked
    \/ weightInput
    \/ relevanceInput
    \/ applyClicked
    \/ adjustSucceeded
    \/ adjustFailed
    \/ updateHypergraphOne
    \/ fetchHotFailed

SpecFrame == Init /\ [][NextFrame]_vars

\* The settings page
NextSettings ==
    \/ passwordTyped
    \/ saveClicked
    \/ saveAnswered
    \/ modelsAnswered
    \/ initLoadAnswered
    \/ resetSettingsClicked
    \/ resetAnswered
    \/ resetLoadAnswered

SpecSettings == Init /\ [][NextSettings]_vars

\* The chat page, with the update callback of the hypergraph page
NextChat ==
    \/ chatTyped
    \/ modelChosen
    \/ sendRequested
    \/ sendAnswered
    \/ sendAnsweredWithUpdate

SpecChat == Init /\ [][NextChat]_vars

\* The projector alone, on drawn hyperedge lists
pageVars == <<currentHotData, selectedElement, simNodes, linkData, selectedNodes,
              selectedLinks, attached, relevanceDisabled, relevanceValue, weightDisabled,
              weightValue, applyDisabled, applyLabel, inflight, hotFetch, lastOp,
              lastOutcome, raised, notified, lastResp, clickTarget, metricsRegion,
              insightsRegion, polls, lastPoll, delivered, layoutForce, charge, alpha, alphaTarget, running, drag>>

SeqsUpTo(S, n) == UNION {[1..k -> S] : k \in 0..n}

\* member ids drawn: z is not a node of the snapshot
DrawnIds == {"a", "b", "c", "z"}
KnownIds == {"a", "b", "c"}
DrawnWeights == {Absent, 0, 8}
Sibling == RawEdge("e2", TRUE, <<"b", "c">>, 3)

DrawnEdges ==
    {RawEdge("e1", TRUE, ms, w) : ms \in SeqsUpTo(DrawnIds, MaxMembers), w \in DrawnWeights}

DrawnEdgeLists ==
    UNION {{<<e>>, <<e, Sibling>>, <<Sibling, e>>} : e \in DrawnEdges}

InitProject ==
    /\ InitPage
    /\ pEdges \in DrawnEdgeLists
    /\ pLinks = <<>>
    /\ pDone = FALSE

\* lines 135-147 of updateVisualization on hotData.edges = pEdges
project ==
    /\ ~pDone
    /\ pLinks' = ProjectLinks(pEdges)
    /\ pDone' = TRUE
    /\ pEdges' = pEdges
    /\ UNCHANGED pageVars
    /\ UNCHANGED settingsVars
    /\ UNCHANGED chatVars

NextProject == project

SpecProject == InitProject /\ [][NextProject]_vars

\* ================================================================ claims
Deliveries == {"updateHypergraph", "fetchHotAnswered"}

\* C1: in every reachable state a node selection has the relevance control
\* enabled and the weight control disabled, an edge selection has the weight
\* control enabled and the relevance control disabled, and with no selection
\* both controls are disabled.
C1_ControlsFollowSelection ==
    /\ selectedElement.type = "node" => ~relevanceDisabled /\ weightDisabled
    /\ selectedElement.type = "edge" => ~weightDisabled /\ relevanceDisabled
    /\ selectedElement = NoSelection => relevanceDisabled /\ weightDisabled

\* C2: after a click on the empty background nothing is selected, both
\* adjustment controls are disabled and no node or link is highlighted.
C2_BackgroundClickDeselects ==
    lastOp = "backgroundClicked" =>
        /\ selectedElement = NoSelection
        /\ relevanceDisabled
        /\ weightDisabled
        /\ HighlightedNodes = {}
        /\ HighlightedLinks = {}

\* C3: while an adjustment request awaits its response the apply control is
\* disabled and shows the busy label.
C3_ApplyBusyWhileInFlight ==
    inflight # <<>> => applyDisabled /\ applyLabel = BusyLabel

\* C4: the request that an apply click sends carries the id and type of the
\* selection and the value of its control at that instant, and no click,
\* slider move or snapshot delivery changes a request that is in flight.
C4_Sent(b) ==
    /\ b.element_id = selectedElement.id
    /\ b.element_type = selectedElement.type
    /\ selectedElement.type = "node" => b.new_relevance = ParseFloat(relevanceValue)
    /\ selectedElement.type = "edge" => b.new_weight = ParseFloat(weightValue)

C4_RequestCarriesClickInstant ==
    [][/\ (lastOp' = "applyClicked" /\ selectedElement # NoSelection) =>
            \E k \in 1..Len(inflight') :
                /\ C4_Sent(inflight'[k])
                /\ RemoveAt(inflight', k) = inflight
       /\ lastOp' \notin {"applyClicked", "adjustSucceeded", "adjustFailed"} =>
            inflight' = inflight]_vars

\* a request is in flight for an element other than the one now selected
C4_Witness ==
    /\ lastOp = "nodeClicked"
    /\ \E k \in 1..Len(inflight) : inflight[k].element_id # selectedElement.id

\* C5 as stated: when a request fails an error notification is shown, the
\* selection is the one the request was submitted for, and the apply control
\* is enabled.
C5_FailureKeepsSubmittedSelection ==
    [][lastOp' = "adjustFailed" =>
        /\ notified'.type = "error"
        /\ ~applyDisabled'
        /\ \E k \in 1..Len(inflight) :
            /\ inflight' = RemoveAt(inflight, k)
            /\ selectedElement' =
                   Selection(inflight[k].element_type, inflight[k].element_id)]_vars

\* C5 amended: when a request fails an error notification with the server's
\* error string (a generic message when there is none) is shown, the failure
\* handling leaves the selection as it was when the response arrived, the
\* apply control shows its normal label and is enabled if a selection is
\* active.
C5_FailureKeepsCurrentSelection ==
    [][lastOp' = "adjustFailed" =>
        /\ notified'.type = "error"
        /\ notified'.message = "Erro ao aplicar ajustes: " \o
              (IF lastResp'.kind = "http" /\ lastResp'.error # "" THEN lastResp'.error
               ELSE IF lastResp'.kind = "http" THEN "HTTP error! status: 500"
               ELSE "Failed to fetch")
        /\ selectedElement' = selectedElement
        /\ applyLabel' = IdleLabel
        /\ selectedElement # NoSelection => ~applyDisabled'
        /\ selectedElement = NoSelection => applyDisabled' = applyDisabled]_vars

\* Scenario C: the request for edge e1 failed with "db down"
C5_Witness ==
    /\ lastOp = "adjustFailed"
    /\ lastResp = [kind |-> "http", error |-> "db down"]
    /\ notified = Notification("Erro ao aplicar ajustes: db down", "error")
    /\ selectedElement = Selection("edge", "e1")
    /\ ~applyDisabled

\* C6: after a request succeeded a success notification is shown, nothing is
\* selected, the two adjustment controls and the apply control are disabled
\* and no node or link is highlighted.
C6_SuccessDeselects ==
    lastOp = "adjustSucceeded" =>
        /\ notified.type = "success"
        /\ selectedElement = NoSelection
        /\ relevanceDisabled
        /\ weightDisabled
        /\ applyDisabled
        /\ HighlightedNodes = {}
        /\ HighlightedLinks = {}

\* a request succeeded on a page that shows a graph, another still in flight
C6_Witness ==
    /\ lastOp = "adjustSucceeded"
    /\ RenderedLinks # <<>>
    /\ inflight # <<>>

\* C7: a snapshot without its nodes or edges sequence, delivered to a page
\* that shows a graph, leaves the rendered nodes and links and the stored
\* snapshot as they were, and the user is shown a warning.
C7_InvalidSnapshotKeepsView ==
    [][(lastOp' \in Deliveries /\ lastOutcome' = "invalid" /\ RenderedNodes # <<>>) =>
        /\ RenderedNodes' = RenderedNodes
        /\ RenderedLinks' = RenderedLinks
        /\ currentHotData' = currentHotData
        /\ notified'.type = "warning"]_vars

Position(n) == <<n.init, n.at, n.ticks>>

\* C8: when a valid snapshot has been rendered, every node whose id was
\* rendered before has the position it had before.
C8_KeptNodeKeepsPosition ==
    [][(lastOp' \in Deliveries /\ lastOutcome' = "ok") =>
        \A i \in 1..Len(RenderedNodes), j \in 1..Len(RenderedNodes') :
            RenderedNodes[i].id = RenderedNodes'[j].id =>
                Position(RenderedNodes'[j]) = Position(RenderedNodes[i])]_vars

\* hyperedge e is one the claim wants dropped: fewer than two members, or a
\* member that is no node of the snapshot
Malformed(e) ==
    \/ Len(e.nodes) < 2
    \/ \E m \in 1..Len(e.nodes) : e.nodes[m] \notin KnownIds

LinksOf(links, edgeId) == SelectSeq(links, LAMBDA l : l.id = edgeId)

\* C9: a hyperedge with fewer than two members or with a member that is not
\* a node of the snapshot contributes no links, and the other hyperedges of
\* the snapshot are projected as they are alone.
C9_MalformedHyperedgeDropped ==
    pDone =>
        \A k \in 1..Len(pEdges) :
            /\ Malformed(pEdges[k]) => LinksOf(pLinks, pEdges[k].id) = <<>>
            /\ ~Malformed(pEdges[k]) =>
                   LinksOf(pLinks, pEdges[k].id) = OuterLoop(pEdges[k], 1)

\* place of the pair (i, j), i < j, among the pairs of k members in
\* index-ascending order
PairIndex(i, j, k) == (i - 1) * k - ((i * (i - 1)) \div 2) + (j - i)

\* C10: a hyperedge with k >= 2 members yields exactly k(k-1)/2 links, the
\* link of members i < j standing at the place of (i, j) in index-ascending
\* order and carrying the hyperedge's id.
C10_CliqueInIndexOrder ==
    pDone =>
        \A e \in 1..Len(pEdges) :
            LET ms == pEdges[e].nodes
                k == Len(ms)
                ls == LinksOf(pLinks, pEdges[e].id)
            IN  k >= 2 =>
                    /\ Len(ls) = (k * (k - 1)) \div 2
                    /\ \A i \in 1..k, j \in 1..k :
                        i < j =>
                            /\ ls[PairIndex(i, j, k)].source = ms[i]
                            /\ ls[PairIndex(i, j, k)].target = ms[j]
                            /\ ls[PairIndex(i, j, k)].id = pEdges[e].id

\* Scenario A: e1 over [a, b, c] gave (a,b), (a,c), (b,c)
C10_Witness ==
    /\ pDone
    /\ pEdges[1].nodes = <<"a", "b", "c">>
    /\ Len(pLinks) = 3
    /\ <<pLinks[1].source, pLinks[1].target>> = <<"a", "b">>
    /\ <<pLinks[2].source, pLinks[2].target>> = <<"a", "c">>
    /\ <<pLinks[3].source, pLinks[3].target>> = <<"b", "c">>

\* C11: every derived link carries the weight of its hyperedge, for every
\* numeric weight the hyperedge has.
C11_LinkCarriesEdgeWeight ==
    pDone =>
        \A k \in 1..Len(pEdges) :
            pEdges[k].weight # Absent =>
                \A l \in 1..Len(pLinks) :
                    pLinks[l].id = pEdges[k].id => pLinks[l].weight = pEdges[k].weight

Member(edge, x) == \E m \in 1..Len(edge.nodes) : edge.nodes[m] = x

\* link l joins x and y for hyperedge edgeId
Joins(l, x, y, edgeId) ==
    /\ l.id = edgeId
    /\ {l.source, l.target} = {x, y}

\* C12: when a snapshot in which two hyperedges contain the same pair of
\* nodes has been rendered, the rendered links hold two distinct links for
\* that pair, one per hyperedge, and a click on a link selects the hyperedge
\* of that link.
C12_SharedPairKeptApart ==
    /\ (lastOp \in Deliveries /\ lastOutcome = "ok") =>
          \A k, h \in 1..Len(currentHotData.edges) :
              \A x, y \in NodeIds(currentHotData.nodes) :
                  LET ek == currentHotData.edges[k]
                      eh == currentHotData.edges[h]
                  IN  (k < h /\ x # y /\ Member(ek, x) /\ Member(ek, y)
                             /\ Member(eh, x) /\ Member(eh, y)) =>
                          \E p, q \in 1..Len(RenderedLinks) :
                              /\ p # q
                              /\ Joins(RenderedLinks[p], x, y, ek.id)
                              /\ Joins(RenderedLinks[q], x, y, eh.id)
    /\ lastOp = "linkClicked" =>
          selectedElement = Selection("edge", RenderedLinks[clickTarget].id)

\* C13: when exactly one of the two requests of a run of the poller fails,
\* the region of the failed request shows the error placeholder and the
\* other region shows its fetched content.
C13_RegionsFailIndependently ==
    lastOp = "insightsAnswered" =>
        /\ (lastPoll.metrics = "ok" /\ lastPoll.insights # "ok") =>
               metricsRegion = "content" /\ insightsRegion = "error"
        /\ (lastPoll.metrics # "ok" /\ lastPoll.insights = "ok") =>
               metricsRegion = "error" /\ insightsRegion = "content"

\* C14: one run of the poller is pending after the initial load, and every
\* invocation of the global update callback starts one more run, whatever
\* snapshot it was given and however rendering it ended.
C14_PollStartedAfterEveryUpdate ==
    /\ PollsPending = 1
    /\ [][lastOp' = "updateHypergraph" => polls'.metrics = polls.metrics + 1]_vars

\* the value a control is to be seeded with: the element's own number, 0.5
\* only when it has none
Seed(x) == NumberToString(IF x = Absent THEN Half ELSE x)

\* C15: after a click on a node the relevance control holds that node's
\* relevance, and after a click on a link the weight control holds the weight
\* of the link's hyperedge; 0.5 only when the element has no such number.
C15_ControlSeededWithCurrentValue ==
    /\ lastOp = "nodeClicked" =>
          relevanceValue = Seed(RenderedNodes[clickTarget].relevance)
    /\ (lastOp = "linkClicked" /\ ~raised) =>
          weightValue =
              Seed(currentHotData.edges[FindEdge(RenderedLinks[clickTarget].id)].weight)

\* C16: after a click on a link the selection is the hyperedge of that link,
\* the highlighted links are exactly the rendered links of that hyperedge,
\* and no node is highlighted.
C16_LinkClickHighlightsHyperedge ==
    lastOp = "linkClicked" =>
        LET edgeId == RenderedLinks[clickTarget].id
        IN  /\ selectedElement = Selection("edge", edgeId)
            /\ HighlightedLinks =
                   {j \in 1..Len(RenderedLinks) : RenderedLinks[j].id = edgeId}
            /\ HighlightedNodes = {}

\* one of the three links of e1 was clicked; the link of e2 stays plain
C16_Witness ==
    /\ lastOp = "linkClicked"
    /\ currentHotData = SnapShared
    /\ selectedElement = Selection("edge", "e1")
    /\ Cardinality(HighlightedLinks) = 3
    /\ Len(RenderedLinks) = 4

\* C17: after the user has changed the layout-force control the charge
\* strength is the one of the control's new value and the simulation runs
\* with its energy raised.
C17_LayoutForceReheats ==
    lastOp = "layoutForceInput" =>
        /\ charge = ParseFloat(layoutForce) * ChargePerTenth
        /\ running
        /\ alpha >= ReheatAlpha

Pinned == {i \in 1..Len(simNodes) : simNodes[i].fx # NoPin}

\* C18: during a drag gesture the dragged node is pinned, after a move of
\* the pointer it is pinned at a pointer position, and outside drag gestures
\* no node is pinned.
C18_PinnedExactlyWhileDragged ==
    /\ drag.on => Cardinality(Pinned) = 1
    /\ lastOp = "dragged" => \E i \in Pinned : simNodes[i].fx \in PointerPositions
    /\ ~drag.on => Pinned = {}

\* C19: when rendering a delivered snapshot raised an exception, on the
\* fetch path or on the callback path, the exception did not leave the entry
\* point and the user was shown an error notification.
C19_RenderExceptionCaught ==
    (lastOp \in Deliveries /\ lastOutcome = "threw") =>
        /\ ~raised
        /\ notified.type = "error"

\* a run of the poller ended in its catch block
PollRunFailed ==
    /\ lastOp \in {"metricsAnswered", "insightsAnswered"}
    /\ lastPoll # NoPoll
    /\ lastPoll # [metrics |-> "ok", insights |-> "ok"]

\* C20: the handling of a failed fetch of the hypergraph, of a failed run of
\* the poller and of a failed adjustment shows a notification and starts no
\* request.
C20_FailureNotifiesWithoutRetry ==
    [][(lastOp' \in {"fetchHotFailed", "adjustFailed"} \/ PollRunFailed') =>
        /\ notified'.type # "none"
        /\ hotFetch' = (IF lastOp' = "fetchHotFailed" THEN "done" ELSE hotFetch)
        /\ Len(inflight') <= Len(inflight)
        /\ PollsPending' <= PollsPending]_vars

\* C21: every adjustment request carries element_id and element_type and, of
\* new_relevance and new_weight, exactly the one that belongs to its type;
\* the request sent by a click on apply is the one of the selection, and a
\* click with nothing selected sends none.
C21_Shaped(b) ==
    /\ b.element_type \in {"node", "edge"}
    /\ b.element_type = "node" => b.new_relevance # Absent /\ b.new_weight = Absent
    /\ b.element_type = "edge" => b.new_weight # Absent /\ b.new_relevance = Absent

C21_RequestBodyShape ==
    [][/\ \A k \in 1..Len(inflight') : C21_Shaped(inflight'[k])
       /\ lastOp' = "applyClicked" =>
            IF selectedElement = NoSelection
            THEN inflight' = inflight
            ELSE \E k \in 1..Len(inflight') :
                    /\ inflight' = Insert(inflight, inflight'[k])
                    /\ inflight'[k].element_id = selectedElement.id
                    /\ inflight'[k].element_type = selectedElement.type]_vars

\* a node request and an edge request await their answers
C21_Witness ==
    /\ \E k \in 1..Len(inflight) : inflight[k].element_type = "node"
    /\ \E k \in 1..Len(inflight) : inflight[k].element_type = "edge"

\* C22: a slider move, a submission and its success or failure response leave
\* the stored snapshot and the data of the rendered nodes and links as they
\* were; as the claim states it, only a snapshot delivery changes them.
AdjustmentSteps ==
    {"weightInput", "relevanceInput", "applyClicked", "adjustSucceeded", "adjustFailed"}

C22_View ==
    <<currentHotData,
      [i \in 1..Len(RenderedNodes) |->
          <<RenderedNodes[i].id, RenderedNodes[i].label, RenderedNodes[i].relevance>>],
      [i \in 1..Len(RenderedLinks) |->
          <<RenderedLinks[i].source, RenderedLinks[i].target,
            RenderedLinks[i].id, RenderedLinks[i].weight>>]>>

C22_OnlyDeliveryChangesView ==
    [][C22_View' # C22_View => lastOp' \in Deliveries]_vars

\* C22 as amended: a failed fetch of the hypergraph changes them as well, it
\* puts an error message in place of the visualization.
C22_AdjustmentLeavesView ==
    [][/\ lastOp' \in AdjustmentSteps => C22_View' = C22_View
       /\ C22_View' # C22_View => lastOp' \in Deliveries \cup {"fetchHotFailed"}]_vars

\* a moved slider was submitted and answered while the graph is on display
C22_Witness ==
    /\ lastOp = "adjustSucceeded"
    /\ weightValue \in UserValues
    /\ RenderedLinks # <<>>

\* C23: once a valid snapshot has been rendered, the rendered nodes are the
\* nodes of that snapshot and the rendered links are the links derived from
\* its hyperedges, nothing more and nothing less.
BareLink(l) == Link(l.source, l.target, l.weight, l.id)

C23_RenderedIsSnapshot ==
    (lastOp \in Deliveries /\ lastOutcome = "ok") =>
        /\ {RenderedNodes[i].id : i \in 1..Len(RenderedNodes)}
                = {currentHotData.nodes[i].id : i \in 1..Len(currentHotData.nodes)}
        /\ {BareLink(RenderedLinks[i]) : i \in 1..Len(RenderedLinks)}
                = {ProjectLinks(currentHotData.edges)[i] :
                        i \in 1..Len(ProjectLinks(currentHotData.edges))}

\* the same while the scene is in the document
C23_WhileAttached == attached => C23_RenderedIsSnapshot

\* C24: every normalized node has a usable label, its own when that is not
\* empty and its id otherwise.
UsableLabel(raw) == IF raw.label \in {NoLabel, ""} THEN raw.id ELSE raw.label

C24_LabelFallsBackToId ==
    (lastOp \in Deliveries /\ lastOutcome = "ok") =>
        /\ Len(simNodes) = Len(currentHotData.nodes)
        /\ \A i \in 1..Len(simNodes) :
                simNodes[i].label = UsableLabel(currentHotData.nodes[i])

\* the same for the nodes that have no label key at all or a non-empty label
C24_ExceptEmptyLabel ==
    (lastOp \in Deliveries /\ lastOutcome = "ok") =>
        \A i \in 1..Len(simNodes) :
            currentHotData.nodes[i].label # "" =>
                simNodes[i].label = UsableLabel(currentHotData.nodes[i])

\* C25: a reheat, after a layout-force change or a reset click, leaves every
\* node where it stands and as pinned as it was; of the simulation's state
\* only the energy changes, and it does not go down.
Reheats == {"layoutForceInput", "resetClicked"}

C25_ReheatKeepsPositions ==
    [][lastOp' \in Reheats =>
            /\ Len(simNodes') = Len(simNodes)
            /\ \A i \in 1..Len(simNodes) :
                    /\ Position(simNodes'[i]) = Position(simNodes[i])
                    /\ simNodes'[i].fx = simNodes[i].fx
            /\ alpha' >= alpha
            /\ alphaTarget' = alphaTarget]_vars

\* the reset was clicked with a node that had moved from its initial place
C25_Witness ==
    /\ lastOp = "resetClicked"
    /\ \E i \in 1..Len(simNodes) : simNodes[i].ticks > 0
    /\ alpha = FullAlpha
    /\ running

\* C26: the node list and the link list that processing a snapshot yields are
\* determined by that snapshot alone, whatever was processed before: the same
\* nodes in the same order, the same links in the same order with the same
\* source, target, hyperedge id and weight. For the snapshot of nodes a, b, c
\* and hyperedge e1 they are the lists written out here.
C26_NodeList == [i \in 1..Len(simNodes) |->
                    [id |-> simNodes[i].id, label |-> simNodes[i].label,
                     relevance |-> simNodes[i].relevance]]
C26_LinkList == [i \in 1..Len(linkData) |-> BareLink(linkData[i])]

C26_SameSnapshotSameLists ==
    (lastOp \in Deliveries /\ lastOutcome = "ok") =>
        /\ C26_NodeList = NormalizeNodes(currentHotData.nodes)
        /\ C26_LinkList = ProjectLinks(currentHotData.edges)
        /\ currentHotData = SnapA =>
            /\ C26_NodeList = <<[id |-> "a", label |-> "Alpha", relevance |-> 8],
                                [id |-> "b", label |-> "b", relevance |-> Absent],
                                [id |-> "c", label |-> "", relevance |-> 0]>>
            /\ C26_LinkList = <<Link("a", "b", 8, "e1"), Link("a", "c", 8, "e1"),
                                Link("b", "c", 8, "e1")>>

\* the snapshot of a, b, c and e1 is processed after an earlier delivery
C26_Witness ==
    /\ lastOp = "updateHypergraph"
    /\ lastOutcome = "ok"
    /\ currentHotData = SnapA
    /\ hotFetch = "done"

\* C27: when the initial fetch and a delivery through the update callback
\* overlap, the snapshot that is stored and rendered after each of them is the
\* one that handler was handed: the later arrival wins, even the fetch that
\* was requested first, and nothing is dropped as stale.
Overlapped ==
    \/ lastOp = "updateHypergraph" /\ hotFetch = "pending"
    \/ lastOp = "fetchHotAnswered" /\ polls.metrics > 1

C27_LastProcessedWins ==
    (Overlapped /\ lastOutcome = "ok") =>
        /\ currentHotData = delivered[1]
        /\ [i \in 1..Len(RenderedNodes) |-> RenderedNodes[i].id]
                = [i \in 1..Len(delivered[1].nodes) |-> delivered[1].nodes[i].id]

\* the part about the stored snapshot and the data bound to the scene
C27_LastProcessedIsStored ==
    (Overlapped /\ lastOutcome = "ok") =>
        /\ currentHotData = delivered[1]
        /\ C26_NodeList = NormalizeNodes(delivered[1].nodes)

\* C28: at most one adjustment request awaits its response, and the apply
\* control is enabled only while something is selected and no request is
\* awaiting its response.
C28_OneRequestInFlight ==
    /\ Len(inflight) <= 1
    /\ ~applyDisabled => selectedElement # NoSelection /\ inflight = <<>>

\* C29: the response to a request for element A, success or failure, leaves
\* a selection of another element B alone: B stays selected and its
\* adjustment control stays enabled.
C29_AnswerFor(other) ==
    \E k \in 1..Len(inflight) :
        /\ inflight' = RemoveAt(inflight, k)
        /\ inflight[k].element_id # other.id

C29_Kept(sel) ==
    /\ selectedElement' = sel
    /\ sel.type = "node" => ~relevanceDisabled'
    /\ sel.type = "edge" => ~weightDisabled'

C29_CompletionKeepsLaterSelection ==
    [][(/\ lastOp' \in {"adjustSucceeded", "adjustFailed"}
        /\ selectedElement # NoSelection
        /\ C29_AnswerFor(selectedElement)) => C29_Kept(selectedElement)]_vars

\* the same for the failure response alone
C29_FailureKeepsLaterSelection ==
    [][(/\ lastOp' = "adjustFailed"
        /\ selectedElement # NoSelection
        /\ C29_AnswerFor(selectedElement)) => C29_Kept(selectedElement)]_vars

\* C30: while something is selected, the selected id is the id of a node of
\* the stored snapshot (node selection) or of one of its hyperedges (edge
\* selection).
C30_SelectionInStoredSnapshot ==
    /\ selectedElement.type = "node" =>
            \E i \in 1..Len(currentHotData.nodes) :
                currentHotData.nodes[i].id = selectedElement.id
    /\ selectedElement.type = "edge" =>
            \E k \in 1..Len(currentHotData.edges) :
                currentHotData.edges[k].id = selectedElement.id

\* C31: after a failed fetch or a rejected snapshot has taken the scene out of
\* the document, a valid snapshot delivered through the update callback is
\* rendered into the visible container: its nodes are on display again.
C31_CallbackRecoversView ==
    [][(/\ ~attached
        /\ lastOp' = "updateHypergraph"
        /\ lastOutcome' = "ok")
            => /\ attached'
               /\ {RenderedNodes'[i].id : i \in 1..Len(RenderedNodes')}
                    = {delivered'[1].nodes[i].id : i \in 1..Len(delivered'[1].nodes)}]_vars

\* C32: a delivery that fails with an exception leaves the stored snapshot as
\* it was, and every link on display finds its hyperedge in the stored
\* snapshot.
C32_LinkFound(l) ==
    \E k \in 1..Len(currentHotData.edges) : currentHotData.edges[k].id = l.id

C32_StoredMatchesRendered ==
    [][/\ (lastOp' \in Deliveries /\ lastOutcome' = "threw")
                => currentHotData' = currentHotData
       /\ \A i \in 1..Len(RenderedLinks') : C32_LinkFound(RenderedLinks[i])']_vars

\* C33: no derived link joins a node to itself, whatever the member list of
\* the hyperedge, a list that names a node twice included.
C33_NoSelfLink ==
    pDone => \A i \in 1..Len(pLinks) : pLinks[i].source # pLinks[i].target

\* C34: a click on reset leaves nothing selected, both adjustment controls and
\* the apply control disabled and no highlight; it restarts the simulation at
\* full energy; the stored snapshot and the rendered nodes and links are what
\* they were.
C34_ResetClearsSelectionOnly ==
    [][lastOp' = "resetClicked" =>
            /\ selectedElement' = NoSelection
            /\ relevanceDisabled' /\ weightDisabled' /\ applyDisabled'
            /\ HighlightedNodes' = {} /\ HighlightedLinks' = {}
            /\ alpha' = FullAlpha /\ running'
            /\ currentHotData' = currentHotData
            /\ RenderedNodes' = RenderedNodes
            /\ RenderedLinks' = RenderedLinks]_vars

\* reset was clicked on a displayed graph after the weight slider of a
\* selected hyperedge had been moved
C34_Witness ==
    /\ lastOp = "resetClicked"
    /\ weightValue \in UserValues
    /\ RenderedLinks # <<>>
    /\ \E i \in 1..Len(RenderedNodes) : RenderedNodes[i].ticks > 0

\* C35: validatePasswords returns true exactly when no new password and no
\* confirmation are entered, or a current password is entered and the new
\* password has at least 8 characters and equals the confirmation; a save
\* request is sent exactly when it returned true, and carries password data
\* only when a new password was entered.
C35_Acceptable ==
    \/ newPassword = "" /\ confirmPassword = ""
    \/ /\ currentPassword # ""
       /\ Len(newPassword) >= 8
       /\ newPassword = confirmPassword

C35_ValidationAndPayload ==
    [][lastOp' = "saveClicked" =>
        /\ (lastValid' = "true") <=> C35_Acceptable
        /\ IF C35_Acceptable
           THEN /\ Len(saveInflight') = Len(saveInflight) + 1
                /\ LET sent == saveInflight'[Len(saveInflight')]
                   IN  /\ sent.hasPassword <=> newPassword # ""
                       /\ sent.hasPassword =>
                            /\ sent.password.newPassword = newPassword
                            /\ sent.password.currentPassword = currentPassword
                       /\ ~sent.hasPassword => sent.password = NoPassword
           ELSE saveInflight' = saveInflight]_vars

\* a save with a new password passed the validation and is on its way
C35_Witness ==
    /\ lastOp = "saveClicked"
    /\ lastValid = "true"
    /\ saveInflight # <<>>
    /\ saveInflight[1].hasPassword

\* C36: the save control is disabled, with its busy label, exactly while a
\* save request awaits its response; when the request completes, with success
\* or failure, it is enabled with its normal label; at most one save request
\* is in flight.
C36_SaveControlFollowsRequest ==
    [][/\ saveDisabled' <=> saveInflight' # <<>>
       /\ (saveLabel' = SaveBusyLabel) <=> saveInflight' # <<>>
       /\ Len(saveInflight') <= 1
       /\ lastOp' \in {"saveSucceeded", "saveFailed"} =>
            ~saveDisabled' /\ saveLabel' = SaveIdleLabel]_vars

\* a save request failed and the control is back
C36_Witness ==
    /\ lastOp = "saveFailed"
    /\ ~saveDisabled
    /\ saveLabel = SaveIdleLabel

\* C37: the settings are loaded into the form only after the model list has
\* been populated, and every page initialisation gets to start the settings
\* load: once the request for the model list is over, the load has been
\* started.
C37_SettingsLoadFollowsModels ==
    /\ initLoad # "idle" => modelList = "populated"
    /\ formLoaded => modelList = "populated"
    /\ modelsFetch = "done" => initLoad # "idle"

\* the load that populateModelSelect starts comes after the list
C37_InitLoadAfterModels == initLoad # "idle" => modelList = "populated"

\* C38: no typing indicator stays in the transcript once its send has
\* finished: the indicators on display are those of the sends that still
\* await their result.
C38_IndicatorRemovedAfterSend == chatIndicators = chatPending

====
